---- MODULE Spec2Model ----
(***************************************************************************)
(* Model of app.py of the Pokemon TCG valuator agent: the query builder    *)
(* and search of get_card_image and get_card_info, the field extraction of *)
(* get_card_info, PokemonTCGAgent, run_agent and run_app.                  *)
(*                                                                         *)
(* A Python str is a sequence of one-character strings.  A Card returned   *)
(* by the upstream search is a tree of attributes; each attribute of the   *)
(* tree is either there with a value, there with the value None, or not    *)
(* there at all (getattr raises AttributeError).                           *)
(***************************************************************************)
EXTENDS Naturals, Sequences, FiniteSets, TLC

VARIABLES
    card_name, set_name, set_series, number, \* the arguments of the call
    pc,             \* where run_app (or the caller of the tools) stands
    image,          \* the call of get_card_image of this submission
    info,           \* the last call of get_card_info
    agent,          \* run_agent's local variable agent
    initOutcome,    \* what PokemonTCGAgent() did in this submission
    runOutcome,     \* what agent(...) did in this submission
    report,         \* what run_agent returned
    result,         \* what run_app returned or raised
    trace,          \* the external calls of this submission, in order
    submissions,    \* submissions so far
    reached,        \* submissions whose run_agent was entered
    constructed,    \* PokemonTCGAgent() calls so far
    toolCalls,      \* get_card_info calls of the running agent
    upstream        \* SpecExtract: the answer the upstream gives to a query

vars == <<card_name, set_name, set_series, number, pc, image, info, agent,
          initOutcome, runOutcome, report, result, trace, submissions,
          reached, constructed, toolCalls, upstream>>

args == <<card_name, set_name, set_series, number>>
orch == <<agent, initOutcome, runOutcome, report, result, trace,
          submissions, reached, constructed, toolCalls>>

---------------------------------------------------------------------------
(* Bounds *)

\* the characters of all four arguments together, in SpecQuery
MaxTotalLen == 3
\* the records of one upstream answer
MaxRecords == 2
\* the attributes that are None or not there, over one upstream answer
MaxDefects == 1
\* submissions to run_app
MaxSubmissions == 2
\* get_card_info calls of one agent run (the source caps the agent's steps)
MaxToolCalls == 1

---------------------------------------------------------------------------
(* Python str operations *)

Alphabet == {"a", "A", " ", "&"}

UpperCase == <<"A", "E", "P", "S", "V", "X">>
LowerCase == <<"a", "e", "p", "s", "v", "x">>

\* str.lower() on one character
LowerChar(c) ==
    IF \E i \in 1..Len(UpperCase) : UpperCase[i] = c
    THEN LowerCase[CHOOSE i \in 1..Len(UpperCase) : UpperCase[i] = c]
    ELSE c

\* a faulty variant: lower() left out
LowerNoop(s) == s

\* str.lower()
Lower(s) == [i \in 1..Len(s) |-> LowerChar(s[i])]

NotAmp(c) == c # "&"

\* str.replace('&', '')
ReplaceAmp(s) == SelectSeq(s, NotAmp)

RECURSIVE SplitFrom(_, _, _)
\* the pieces of s from place i on, cur being the piece so far
SplitFrom(s, i, cur) ==
    IF i > Len(s) THEN <<cur>>
    ELSE IF s[i] = " " THEN <<cur>> \o SplitFrom(s, i + 1, <<>>)
    ELSE SplitFrom(s, i + 1, Append(cur, s[i]))

\* str.split(' '): cuts at every single space, keeps the empty pieces
Split(s) == SplitFrom(s, 1, <<>>)

Truthy(t) == t # <<>>

\* list(filter(None, l))
FilterNone(l) == SelectSeq(l, Truthy)

RECURSIVE Join(_, _)
\* sep.join(items)
Join(sep, items) ==
    IF items = <<>> THEN <<>>
    ELSE IF Len(items) = 1 THEN items[1]
    ELSE items[1] \o sep \o Join(sep, Tail(items))

AndSep == <<"A", "N", "D", " ">>
NameField == <<"n", "a", "m", "e", ":">>
SetNameField == <<"s", "e", "t", ".", "n", "a", "m", "e", ":">>
SetSeriesField == <<"s", "e", "t", ".", "s", "e", "r", "i", "e", "s", ":">>
NumberField == <<"n", "u", "m", "b", "e", "r", ":">>

\* a faulty variant: a field without tokens gets no clause
FormatedSkipsEmpty(field, l) ==
    IF l = <<>> THEN <<>>
    ELSE <<"(">> \o Join(AndSep, [i \in 1..Len(l) |-> <<" ">> \o field \o l[i] \o <<" ">>])
                \o <<")">>

\* f"({'AND '.join([f' field:{name} ' for name in l])})"
Formated(field, l) ==
    <<"(">> \o Join(AndSep, [i \in 1..Len(l) |-> <<" ">> \o field \o l[i] \o <<" ">>])
            \o <<")">>

\* f"{a} {b} {c} (number:{number})"
QueryString(a, b, c, n) ==
    a \o <<" ">> \o b \o <<" ">> \o c \o <<" ">>
      \o <<"(">> \o NumberField \o n \o <<")">>

\* a faulty variant: '&' also taken out of the card name
ImageQueryStripName(cn, sn, ss, n) ==
    QueryString(Formated(NameField, FilterNone(Split(ReplaceAmp(Lower(cn))))),
                Formated(SetNameField, FilterNone(Split(ReplaceAmp(Lower(sn))))),
                Formated(SetSeriesField, FilterNone(Split(ReplaceAmp(Lower(ss))))),
                n)

\* get_card_image, the q of Card.where
ImageQuery(cn, sn, ss, n) ==
    LET card_name_formated_list == FilterNone(Split(Lower(cn)))
        card_name_formated == Formated(NameField, card_name_formated_list)
        set_name_formated_list == FilterNone(Split(ReplaceAmp(Lower(sn))))
        set_name_formated == Formated(SetNameField, set_name_formated_list)
        set_series_formated_list == FilterNone(Split(ReplaceAmp(Lower(ss))))
        set_series_formated == Formated(SetSeriesField, set_series_formated_list)
    IN  QueryString(card_name_formated, set_name_formated, set_series_formated, n)

\* get_card_info, the q of Card.where
InfoQuery(cn, sn, ss, n) ==
    LET card_name_formated_list == FilterNone(Split(Lower(cn)))
        card_name_formated == Formated(NameField, card_name_formated_list)
        set_name_formated_list == FilterNone(Split(ReplaceAmp(Lower(sn))))
        set_name_formated == Formated(SetNameField, set_name_formated_list)
        set_series_formated_list == FilterNone(Split(ReplaceAmp(Lower(ss))))
        set_series_formated == Formated(SetSeriesField, set_series_formated_list)
    IN  QueryString(card_name_formated, set_name_formated, set_series_formated, n)

---------------------------------------------------------------------------
(* The records of the upstream search *)

\* get_card_info, field_map (a dict: in the order written)
field_map == <<
    [key |-> "url", path |-> <<"cardmarket", "url">>],
    [key |-> "name", path |-> <<"name">>],
    [key |-> "set_name", path |-> <<"set", "series">>],
    [key |-> "rarity", path |-> <<"rarity">>],
    [key |-> "release_date", path |-> <<"set", "releaseDate">>],
    [key |-> "printed_total", path |-> <<"set", "printedTotal">>],
    [key |-> "updated_at", path |-> <<"cardmarket", "updatedAt">>],
    [key |-> "average_sell_price", path |-> <<"cardmarket", "prices", "averageSellPrice">>],
    [key |-> "low_price", path |-> <<"cardmarket", "prices", "lowPrice">>],
    [key |-> "trend_price", path |-> <<"cardmarket", "prices", "trendPrice">>],
    [key |-> "suggested_price", path |-> <<"cardmarket", "prices", "suggestedPrice">>],
    [key |-> "reverse_holo_sell", path |-> <<"cardmarket", "prices", "reverseHoloSell">>],
    [key |-> "cardmarket_prices_reverse_holo_trend",
     path |-> <<"cardmarket", "prices", "reverseHoloTrend">>],
    [key |-> "cardmarket_prices_reverse_holo_low",
     path |-> <<"cardmarket", "prices", "reverseHoloLow">>],
    [key |-> "tcgprices_prices_holofoil_low",
     path |-> <<"tcgplayer", "prices", "holofoil", "low">>],
    [key |-> "tcgprices_prices_holofoil_mid",
     path |-> <<"tcgplayer", "prices", "holofoil", "mid">>],
    [key |-> "tcgprices_prices_holofoil_high",
     path |-> <<"tcgplayer", "prices", "holofoil", "high">>],
    [key |-> "tcgprices_prices_holofoil_market",
     path |-> <<"tcgplayer", "prices", "holofoil", "market">>] >>

\* get_card_image reads card_data.images.small
ImagePath == <<"images", "small">>

\* every attribute the program reads of a Card, by its path from the Card:
\* the paths of field_map and ImagePath, and what they go through
NodeSeq == <<
    <<"name">>,
    <<"rarity">>,
    <<"set">>,
    <<"set", "series">>,
    <<"set", "releaseDate">>,
    <<"set", "printedTotal">>,
    <<"cardmarket">>,
    <<"cardmarket", "url">>,
    <<"cardmarket", "updatedAt">>,
    <<"cardmarket", "prices">>,
    <<"cardmarket", "prices", "averageSellPrice">>,
    <<"cardmarket", "prices", "lowPrice">>,
    <<"cardmarket", "prices", "trendPrice">>,
    <<"cardmarket", "prices", "suggestedPrice">>,
    <<"cardmarket", "prices", "reverseHoloSell">>,
    <<"cardmarket", "prices", "reverseHoloTrend">>,
    <<"cardmarket", "prices", "reverseHoloLow">>,
    <<"tcgplayer">>,
    <<"tcgplayer", "prices">>,
    <<"tcgplayer", "prices", "holofoil">>,
    <<"tcgplayer", "prices", "holofoil", "low">>,
    <<"tcgplayer", "prices", "holofoil", "mid">>,
    <<"tcgplayer", "prices", "holofoil", "high">>,
    <<"tcgplayer", "prices", "holofoil", "market">>,
    <<"images">>,
    <<"images", "small">> >>

NumNodes == Len(NodeSeq)

Nodes == {NodeSeq[k] : k \in 1..NumNodes}

\* a defect is a number: attribute NodeSeq[k] of record i is not there
\* (AbsentAt) or is None (NoneAt)
AbsentAt(i, k) == (i - 1) * 2 * NumNodes + k
NoneAt(i, k) == (i - 1) * 2 * NumNodes + NumNodes + k

\* a Card: id tells the records of one answer apart; absent are the
\* attributes that are not there, none those that are there and None
CardOf(i, D) ==
    [id |-> i,
     absent |-> {NodeSeq[k] : k \in {j \in 1..NumNodes : AbsentAt(i, j) \in D}},
     none |-> {NodeSeq[k] : k \in {j \in 1..NumNodes : NoneAt(i, j) \in D}}]

\* the defect that the attribute at path p of record i is None
IsNone(i, p) == NoneAt(i, CHOOSE k \in 1..NumNodes : NodeSeq[k] = p)

\* a Python value read off a Card: None, or the value at a path of card id
PyNone == [isNone |-> TRUE, id |-> 0, path |-> <<>>]
PyAt(card, p) == [isNone |-> FALSE, id |-> card.id, path |-> p]

\* getattr(value, attr) on a value read off card: AttributeError when value
\* is None or has no such attribute
GetAttr(card, value, attr) ==
    IF value.isNone \/ Append(value.path, attr) \in card.absent
    THEN [exc |-> "AttributeError", value |-> PyNone]
    ELSE IF Append(value.path, attr) \in card.none
    THEN [exc |-> "", value |-> PyNone]
    ELSE [exc |-> "", value |-> PyAt(card, Append(value.path, attr))]

RECURSIVE WalkPath(_, _, _)
\* for attr in path: value = getattr(value, attr)
WalkPath(card, value, path) ==
    IF path = <<>> THEN [exc |-> "", value |-> value]
    ELSE LET got == GetAttr(card, value, Head(path))
         IN  IF got.exc # "" THEN got
             ELSE WalkPath(card, got.value, Tail(path))

EmptyDict == [k \in {} |-> PyNone]

\* d[key] = value
DictSet(d, key, value) ==
    [k \in (DOMAIN d) \cup {key} |-> IF k = key THEN value ELSE d[k]]

\* a faulty variant: a path that fails stores None under its key
TryFieldStoreNone(card, res, entry) ==
    LET walked == WalkPath(card, PyAt(card, <<>>), entry.path)
    IN  IF walked.exc \in {"AttributeError", "TypeError"}
        THEN DictSet(res, entry.key, PyNone)
        ELSE DictSet(res, entry.key, walked.value)

\* get_card_info, one round of the loop: the try, and the except that goes on
TryField(card, res, entry) ==
    LET walked == WalkPath(card, PyAt(card, <<>>), entry.path)
    IN  IF walked.exc \in {"AttributeError", "TypeError"}
        THEN res
        ELSE DictSet(res, entry.key, walked.value)

RECURSIVE ExtractFrom(_, _, _)
\* get_card_info, for key, path in field_map.items(), from entry i on
ExtractFrom(card, res, i) ==
    IF i > Len(field_map) THEN res
    ELSE ExtractFrom(card, TryField(card, res, field_map[i]), i + 1)

\* a faulty variant: the last record of the answer
LastMatch(cards) == cards[Len(cards)]

\* card_data = card_data[0]
FirstMatch(cards) == cards[1]

---------------------------------------------------------------------------
(* get_card_image and get_card_info *)

CardNotFound == "Card not found"

NoCard == CardOf(0, {})
NoResp == [status |-> "none", cards |-> <<>>]
NoOut == [kind |-> "none", type |-> "none"]
NotCalled ==
    [called |-> FALSE, query |-> <<>>, resp |-> NoResp, card |-> NoCard,
     out |-> NoOut]

Raise(e) == [kind |-> "raise", type |-> e]
Return(t, v) == [kind |-> "return", type |-> t, value |-> v]

\* a faulty variant: the not-found result echoes the lower-cased query
ImageNotFoundLowered(cn, sn, ss, n) ==
    [error |-> CardNotFound, card_name |-> Lower(cn), set_name |-> Lower(sn),
     set_series |-> Lower(ss), number |-> n]

\* get_card_image, the dict returned when len(card_data) == 0
ImageNotFound(cn, sn, ss, n) ==
    [error |-> CardNotFound, card_name |-> cn, set_name |-> sn,
     set_series |-> ss, number |-> n]

\* get_card_info, the dict returned when len(card_data) == 0
InfoNotFound(cn, sn, ss, n) ==
    [error |-> CardNotFound, card_name |-> cn, set_name |-> sn,
     set_series |-> ss, number |-> n]

\* get_card_image, given what Card.where does with the query: it raises, or
\* it returns resp.cards
GetCardImage(cn, sn, ss, n, resp) ==
    LET q == ImageQuery(cn, sn, ss, n)
        called == [called |-> TRUE, query |-> q, resp |-> resp, card |-> NoCard,
                   out |-> NoOut]
    IN  IF resp.status = "error"
        THEN [called EXCEPT !.out = Raise("UpstreamError")]
        ELSE IF Len(resp.cards) = 0
        THEN [called EXCEPT !.out = Return("not_found", ImageNotFound(cn, sn, ss, n))]
        ELSE LET card_data == FirstMatch(resp.cards)
                 small == WalkPath(card_data, PyAt(card_data, <<>>), ImagePath)
             IN  IF small.exc # ""
                 THEN [called EXCEPT !.card = card_data, !.out = Raise(small.exc)]
                 ELSE [called EXCEPT !.card = card_data,
                                     !.out = Return("value", small.value)]

\* get_card_info, given what Card.where does with the query
GetCardInfo(cn, sn, ss, n, resp) ==
    LET q == InfoQuery(cn, sn, ss, n)
        called == [called |-> TRUE, query |-> q, resp |-> resp, card |-> NoCard,
                   out |-> NoOut]
    IN  IF resp.status = "error"
        THEN [called EXCEPT !.out = Raise("UpstreamError")]
        ELSE IF Len(resp.cards) = 0
        THEN [called EXCEPT !.out = Return("not_found", InfoNotFound(cn, sn, ss, n))]
        ELSE LET card_data == FirstMatch(resp.cards)
             IN  [called EXCEPT !.card = card_data,
                                !.out = Return("fields",
                                               ExtractFrom(card_data, EmptyDict, 1))]

---------------------------------------------------------------------------
(* The arguments and the upstream answers the specifications draw from *)

Strings(n) == UNION {[1..k -> Alphabet] : k \in 0..n}

\* the ways to cut a string in four
Cuts ==
    {d \in (0..MaxTotalLen) \X (0..MaxTotalLen) \X (0..MaxTotalLen) :
        d[1] <= d[2] /\ d[2] <= d[3]}

\* every four strings over Alphabet of at most MaxTotalLen characters together
StringQueries ==
    {<<SubSeq(p[1], 1, p[2][1]), SubSeq(p[1], p[2][1] + 1, p[2][2]),
       SubSeq(p[1], p[2][2] + 1, p[2][3]), SubSeq(p[1], p[2][3] + 1, Len(p[1]))>> :
        p \in {r \in Strings(MaxTotalLen) \X Cuts : r[2][3] <= Len(r[1])}}

\* the values the form starts with
DefaultQuery ==
    << <<"E", "e", "v", "e", "e", " ", "E", "X">>,
       <<"P", "r", "i", "s", "m", "a", "t", "i", "c", " ",
         "E", "v", "o", "l", "u", "t", "i", "o", "n", "s">>,
       <<"S", "c", "a", "r", "l", "e", "t", " ", "&", " ",
         "V", "i", "o", "l", "e", "t">>,
       <<"1", "6", "7">> >>

\* the form submitted with every box cleared
ClearedQuery == << <<>>, <<>>, <<>>, <<>> >>

FewQueries == {DefaultQuery, ClearedQuery}

UpstreamError == [status |-> "error", cards |-> <<>>]
Answer(cards) == [status |-> "ok", cards |-> cards]

RECURSIVE SubsetsUpTo(_, _)
\* the subsets of 1..n of at most k elements
SubsetsUpTo(n, k) ==
    IF k = 0 THEN {{}}
    ELSE LET smaller == SubsetsUpTo(n, k - 1)
         IN  smaller \cup {p \cup {x} : p \in smaller, x \in 1..n}

\* no attribute is both None and not there
Consistent(n, D) ==
    \A i \in 1..n, k \in 1..NumNodes : ~(AbsentAt(i, k) \in D /\ NoneAt(i, k) \in D)

\* the cards of an answer of n records with the defects D
CardsOf(n, D) == IF n = 0 THEN <<>> ELSE [i \in 1..n |-> CardOf(i, D)]

\* the answers of at most MaxRecords records with at most MaxDefects
\* attributes None or not there; the upstream may also fail
ManyResponses ==
    {UpstreamError} \cup
    {Answer(CardsOf(p[1], p[2])) :
        p \in {r \in (0..MaxRecords) \X SubsetsUpTo(MaxRecords * 2 * NumNodes, MaxDefects) :
                  /\ \A x \in r[2] : x <= r[1] * 2 * NumNodes
                  /\ Consistent(r[1], r[2])}}

\* the upstream fails, finds nothing, or finds two records
QueryResponses ==
    {UpstreamError,
     Answer(<<>>),
     Answer(<<CardOf(1, {IsNone(1, <<"tcgplayer">>)}), CardOf(2, {})>>)}

\* and it may find a record without images
FewResponses ==
    QueryResponses \cup {Answer(<<CardOf(1, {IsNone(1, <<"images">>)})>>)}

---------------------------------------------------------------------------
(* The two tools called by themselves *)

NoAgent == [id |-> 0, born |-> 0]
NoRun == [kind |-> "none", what |-> ""]

OrchIdle ==
    /\ agent = NoAgent
    /\ initOutcome = "none"
    /\ runOutcome = NoRun
    /\ report = NoOut
    /\ result = NoOut
    /\ trace = <<>>
    /\ submissions = 0
    /\ reached = 0
    /\ constructed = 0
    /\ toolCalls = 0

ToolsInit(Q, U) ==
    /\ \E q \in Q :
          /\ card_name = q[1]
          /\ set_name = q[2]
          /\ set_series = q[3]
          /\ number = q[4]
    /\ upstream \in U
    /\ pc = "tools"
    /\ image = NotCalled
    /\ info = NotCalled
    /\ OrchIdle

\* a caller calls get_card_image; the upstream answers with one of R
CallImage(R) ==
    /\ pc = "tools"
    /\ ~image.called
    /\ \E resp \in R :
          image' = GetCardImage(card_name, set_name, set_series, number, resp)
    /\ UNCHANGED <<args, pc, info, orch, upstream>>

\* a caller calls get_card_info; the upstream answers with one of R
CallInfo(R) ==
    /\ pc = "tools"
    /\ ~info.called
    /\ \E resp \in R :
          info' = GetCardInfo(card_name, set_name, set_series, number, resp)
    /\ UNCHANGED <<args, pc, image, orch, upstream>>

QueryNext == CallImage(QueryResponses) \/ CallInfo(QueryResponses)

\* the tools on every short query; the upstream answers each call as it likes
SpecQuery == ToolsInit(StringQueries, {NoResp}) /\ [][QueryNext]_vars

ExtractNext == CallImage({upstream}) \/ CallInfo({upstream})

\* the tools on every answer of the upstream, which answers both calls alike
SpecExtract == ToolsInit(FewQueries, ManyResponses) /\ [][ExtractNext]_vars

---------------------------------------------------------------------------
(* PokemonTCGAgent, run_agent and run_app *)

\* what self.agent.run can give as the final answer
Answers == {"# Eevee EX", "no card"}
\* what an exception can say
Errors == {"no token", "timed out"}

None == "None"

\* a faulty variant: one agent made once and shared by every submission
AgentShared(made, submission) == [id |-> 1, born |-> 1]

\* run_agent, agent = PokemonTCGAgent(): a new instance, here the made-th one
\* so far, made in this submission
AgentNew(made, submission) == [id |-> made + 1, born |-> submission]

\* a faulty variant: the exception of PokemonTCGAgent() is let through
RunAgentInitRaises(e) == Raise(e)

\* run_agent, except of "1. Instantiate Agent"
RunAgentInitFailed(e) ==
    Return("tuple", [first |-> <<"Error initializing agent: ", e>>, second |-> None])

\* a faulty variant: the return statement left out
CallAgentNoReturn(answer) == None

\* PokemonTCGAgent.__call__: answer = self.agent.run(...); return answer
CallAgent(answer) == answer

\* run_agent, try of "2. Run the Agent": return answer
RunAgentAnswered(answer) == Return("answer", CallAgent(answer))

\* run_agent, except of "2. Run the Agent"
RunAgentRunFailed(e) ==
    Return("tuple", [first |-> <<"Error running agent: ", e>>, second |-> None])

\* a faulty variant: a failed report takes the image with it
RunAppDropsImage(img, rep) ==
    IF rep.type = "tuple"
    THEN Return("tuple", [first |-> Return("value", PyNone), second |-> rep])
    ELSE Return("tuple", [first |-> img, second |-> rep])

\* run_app: return get_card_image(...), run_agent(...)
RunApp(img, rep) == Return("tuple", [first |-> img, second |-> rep])

Init ==
    /\ card_name = <<>>
    /\ set_name = <<>>
    /\ set_series = <<>>
    /\ number = <<>>
    /\ upstream = NoResp
    /\ pc = "idle"
    /\ image = NotCalled
    /\ info = NotCalled
    /\ OrchIdle

\* the form calls run_app: every local starts anew
Submit ==
    /\ pc \in {"idle", "returned", "raised"}
    /\ submissions < MaxSubmissions
    /\ \E q \in FewQueries :
          /\ card_name' = q[1]
          /\ set_name' = q[2]
          /\ set_series' = q[3]
          /\ number' = q[4]
    /\ submissions' = submissions + 1
    /\ pc' = "image"
    /\ image' = NotCalled
    /\ info' = NotCalled
    /\ agent' = NoAgent
    /\ initOutcome' = "none"
    /\ runOutcome' = NoRun
    /\ report' = NoOut
    /\ result' = NoOut
    /\ trace' = <<>>
    /\ toolCalls' = 0
    /\ UNCHANGED <<reached, constructed, upstream>>

\* run_app evaluates get_card_image(...); what it raises leaves run_app
ImageFetch ==
    /\ pc = "image"
    /\ \E resp \in FewResponses :
          LET img == GetCardImage(card_name, set_name, set_series, number, resp)
          IN  /\ image' = img
              /\ IF img.out.kind = "raise"
                 THEN /\ pc' = "raised"
                      /\ result' = img.out
                      /\ reached' = reached
                 ELSE /\ pc' = "agent_init"
                      /\ result' = result
                      /\ reached' = reached + 1
    /\ trace' = Append(trace, "image")
    /\ UNCHANGED <<args, info, agent, initOutcome, runOutcome, report, submissions,
                   constructed, toolCalls, upstream>>

\* run_agent, PokemonTCGAgent() returns
AgentInitOk ==
    /\ pc = "agent_init"
    /\ agent' = AgentNew(constructed, submissions)
    /\ constructed' = constructed + 1
    /\ initOutcome' = "ok"
    /\ trace' = Append(trace, "construct")
    /\ pc' = "agent_run"
    /\ UNCHANGED <<args, image, info, runOutcome, report, result, submissions,
                   reached, toolCalls, upstream>>

\* run_agent, PokemonTCGAgent() raises; run_agent returns and so does run_app
AgentInitFails ==
    /\ pc = "agent_init"
    /\ \E e \in Errors :
          LET rep == RunAgentInitFailed(e)
          IN  /\ initOutcome' = e
              /\ report' = rep
              /\ IF rep.kind = "raise"
                 THEN pc' = "raised" /\ result' = rep
                 ELSE pc' = "returned" /\ result' = RunApp(image.out, rep)
    /\ constructed' = constructed + 1
    /\ trace' = Append(trace, "construct")
    /\ UNCHANGED <<args, image, info, agent, runOutcome, submissions, reached,
                   toolCalls, upstream>>

\* run_agent calls agent(...), which calls self.agent.run(...)
AgentStart ==
    /\ pc = "agent_run"
    /\ pc' = "agent_running"
    /\ trace' = Append(trace, "run")
    /\ UNCHANGED <<args, image, info, agent, initOutcome, runOutcome, report,
                   result, submissions, reached, constructed, toolCalls, upstream>>

\* the running agent calls its tool get_card_info with arguments of its own
AgentToolCall ==
    /\ pc = "agent_running"
    /\ toolCalls < MaxToolCalls
    /\ \E q \in FewQueries, resp \in FewResponses :
          info' = GetCardInfo(q[1], q[2], q[3], q[4], resp)
    /\ toolCalls' = toolCalls + 1
    /\ UNCHANGED <<args, pc, image, agent, initOutcome, runOutcome, report, result,
                   trace, submissions, reached, constructed, upstream>>

\* self.agent.run returns its final answer; run_agent and run_app return
AgentAnswers ==
    /\ pc = "agent_running"
    /\ \E a \in Answers :
          /\ runOutcome' = [kind |-> "answer", what |-> a]
          /\ report' = RunAgentAnswered(a)
          /\ result' = RunApp(image.out, RunAgentAnswered(a))
    /\ pc' = "returned"
    /\ UNCHANGED <<args, image, info, agent, initOutcome, trace, submissions,
                   reached, constructed, toolCalls, upstream>>

\* self.agent.run raises; run_agent returns and so does run_app
AgentRaises ==
    /\ pc = "agent_running"
    /\ \E e \in Errors :
          LET rep == RunAgentRunFailed(e)
          IN  /\ runOutcome' = [kind |-> "raise", what |-> e]
              /\ report' = rep
              /\ IF rep.kind = "raise"
                 THEN pc' = "raised" /\ result' = rep
                 ELSE pc' = "returned" /\ result' = RunApp(image.out, rep)
    /\ UNCHANGED <<args, image, info, agent, initOutcome, trace, submissions,
                   reached, constructed, toolCalls, upstream>>

Next ==
    \/ Submit
    \/ ImageFetch
    \/ AgentInitOk
    \/ AgentInitFails
    \/ AgentStart
    \/ AgentToolCall
    \/ AgentAnswers
    \/ AgentRaises

\* the submissions of the form, one after the other
Spec == Init /\ [][Next]_vars

---------------------------------------------------------------------------
(* Reading a query string back, for the properties of the query builder *)

Chars(s) == {s[i] : i \in 1..Len(s)}

RECURSIVE GroupsFrom(_, _, _, _)
\* the groups of q from place i on; in tells whether a "(" is open, cur is
\* what stands after it so far
GroupsFrom(q, i, in, cur) ==
    IF i > Len(q) THEN (IF in THEN <<cur>> ELSE <<>>)
    ELSE IF ~in THEN GroupsFrom(q, i + 1, q[i] = "(", <<>>)
    ELSE IF q[i] = ")" THEN <<cur>> \o GroupsFrom(q, i + 1, FALSE, <<>>)
    ELSE GroupsFrom(q, i + 1, TRUE, Append(cur, q[i]))

\* what stands between each "(" of q and the next ")"
Groups(q) == GroupsFrom(q, 1, FALSE, <<>>)

RECURSIVE Depth(_, _)
\* the open parentheses after reading q from depth d; -1 once one closes too many
Depth(q, d) ==
    IF d < 0 \/ q = <<>> THEN d
    ELSE Depth(Tail(q), IF Head(q) = "(" THEN d + 1
                        ELSE IF Head(q) = ")" THEN d - 1 ELSE d)

Balanced(q) == Depth(q, 0) = 0

\* the words of a clause
Words(g) == FilterNone(Split(g))

HasPrefix(w, f) == Len(w) >= Len(f) /\ SubSeq(w, 1, Len(f)) = f

IsLower(w) == \A k \in 1..Len(w) : LowerChar(w[k]) = w[k]

FieldNames == <<NameField, SetNameField, SetSeriesField>>
Inputs == <<card_name, set_name, set_series>>

\* the characters of field i that stay in a token
Kept(i, c) == c # " " /\ (i = 1 \/ c # "&")
HasToken(i) == \E k \in 1..Len(Inputs[i]) : Kept(i, Inputs[i][k])

\* the words ws of a clause are field:token with lower-case tokens, joined by AND
ClauseOf(ws, f) ==
    \A k \in 1..Len(ws) :
        IF k % 2 = 0 THEN ws[k] = <<"A", "N", "D">>
        ELSE /\ HasPrefix(ws[k], f)
             /\ Len(ws[k]) > Len(f)
             /\ IsLower(SubSeq(ws[k], Len(f) + 1, Len(ws[k])))

\* the groups g of a query have a clause for each field, each made of
\* lower-case tokens, those fields with a token having a clause with one,
\* and the number as it came
WellBuilt(g) ==
    /\ Len(g) = 4
    /\ \A i \in 1..3 :
          LET ws == Words(g[i])
          IN  /\ ClauseOf(ws, FieldNames[i])
              /\ HasToken(i) => ws # <<>>
    /\ g[4] = NumberField \o number

Calls == {image, info}

\* C5 as it was stated: for any input strings, the query string built by
\* get_card_image and get_card_info is non-empty, has a parenthesized clause
\* for each non-empty field with every token lower-cased, and '&' never
\* appears in a field clause.
C5_AmpInNoFieldClause ==
    \A call \in Calls :
        call.called =>
            LET g == Groups(call.query)
            IN  /\ Len(call.query) > 0
                /\ WellBuilt(g)
                /\ \A i \in 1..3 : "&" \notin Chars(g[i])

\* C5, amended: for any input strings, the query string built by
\* get_card_image and get_card_info is non-empty, has a parenthesized clause
\* for each non-empty field with every token lower-cased, and '&' never
\* appears in the set-name and set-series clauses; the card-name clause has
\* an '&' exactly when the card name has one.
C5_AmpInNoSetClause ==
    \A call \in Calls :
        call.called =>
            LET g == Groups(call.query)
            IN  /\ Len(call.query) > 0
                /\ WellBuilt(g)
                /\ \A i \in 2..3 : "&" \notin Chars(g[i])
                /\ "&" \in Chars(g[1]) <=> "&" \in Chars(card_name)

C5_Witness ==
    /\ image.called
    /\ info.called
    /\ "A" \in Chars(card_name)
    /\ "&" \in Chars(card_name)
    /\ "&" \in Chars(set_name)
    /\ HasToken(1)

\* C6: a field whose tokenization yields no token (empty, or nothing but
\* spaces and stripped characters) does not stop the builder: the field
\* contributes the empty group "()", the parentheses of the query are
\* balanced, and the search is issued with that query.
C6_EmptyFieldEmptyGroup ==
    \A call \in Calls :
        (call.called /\ \E i \in 1..3 : ~HasToken(i)) =>
            LET g == Groups(call.query)
            IN  \A i \in 1..3 :
                ~HasToken(i) =>
                    /\ Len(g) = 4
                    /\ g[i] = <<>>
                    /\ Balanced(call.query)
                    /\ call.resp.status \in {"ok", "error"}
                    /\ call.out.kind = "raise" =>
                          \/ call.resp.status = "error"
                          \/ /\ call = image
                             /\ ~WalkPath(call.card, PyAt(call.card, <<>>), ImagePath).exc = ""

C6_Witness ==
    /\ image.called
    /\ info.called
    /\ card_name = <<" ", " ">>
    /\ set_name = <<>>
    /\ HasToken(3)
    /\ info.out.kind = "return"

NotFoundKeys == {"error", "card_name", "set_name", "set_series", "number"}

\* C2: when the upstream search returns zero records, get_card_image and
\* get_card_info each return, without raising, the not-found result: the
\* error text and the four query fields under their keys, with the values as
\* the caller passed them; each decides this from its own search.
C2_NotFoundEchoesQuery ==
    \A call \in Calls :
        call.called =>
            /\ (call.resp.status = "ok" /\ Len(call.resp.cards) = 0) =>
                  /\ call.out.kind = "return"
                  /\ call.out.type = "not_found"
                  /\ DOMAIN call.out.value = NotFoundKeys
                  /\ call.out.value.error = CardNotFound
                  /\ call.out.value.card_name = card_name
                  /\ call.out.value.set_name = set_name
                  /\ call.out.value.set_series = set_series
                  /\ call.out.value.number = number
            /\ call.out.type = "not_found" =>
                  call.resp.status = "ok" /\ Len(call.resp.cards) = 0

C2_Witness ==
    /\ image.called
    /\ info.called
    /\ image.out.type = "not_found"
    /\ info.out.type = "fields"
    /\ "A" \in Chars(card_name)
    /\ "&" \in Chars(set_name)

\* C10: for the same arguments get_card_image and get_card_info send the
\* same query string to the upstream search, so when the upstream answers
\* both alike they agree on found and not found and take the same record.
C10_SameQuerySameRecord ==
    (image.called /\ info.called) =>
        /\ image.query = info.query
        /\ image.resp = info.resp =>
              /\ image.out.type = "not_found" <=> info.out.type = "not_found"
              /\ image.card = info.card

C10_Witness ==
    /\ image.called
    /\ info.called
    /\ image.resp = info.resp
    /\ Len(image.resp.cards) = 2
    /\ "&" \in Chars(card_name)
    /\ "A" \in Chars(set_series)

---------------------------------------------------------------------------
(* The field extraction and the first match *)

Keys == {field_map[i].key : i \in 1..Len(field_map)}

\* every attribute on path p is there on card, and none before the last is None
Resolves(card, p) ==
    \A d \in 1..Len(p) :
        /\ SubSeq(p, 1, d) \notin card.absent
        /\ d < Len(p) => SubSeq(p, 1, d) \notin card.none

\* what stands at the end of a path that resolves on card
Leaf(card, p) == IF p \in card.none THEN PyNone ELSE PyAt(card, p)

\* C1: for the record taken as first match, get_card_info returns a mapping
\* in which each of the 18 keys of the field table is present exactly when
\* every attribute on its path resolves on that record, and then holds what
\* the path leads to; a key whose path fails is left out, no other key
\* appears, a record on which every path resolves gives all 18 keys, and a
\* record that lacks one leaf attribute gives all keys but that one.
C1_KeyPresentIffPathResolves ==
    (info.called /\ info.out.type = "fields") =>
        LET card == info.resp.cards[1]
            d == info.out.value
        IN  /\ Cardinality(Keys) = 18
            /\ DOMAIN d \subseteq Keys
            /\ \A i \in 1..Len(field_map) :
                  /\ field_map[i].key \in DOMAIN d <=> Resolves(card, field_map[i].path)
                  /\ field_map[i].key \in DOMAIN d =>
                        d[field_map[i].key] = Leaf(card, field_map[i].path)
                  /\ (card.absent = {field_map[i].path} /\ card.none = {}) =>
                        DOMAIN d = Keys \ {field_map[i].key}
            /\ (card.absent = {} /\ card.none = {}) => DOMAIN d = Keys

C1_Witness ==
    /\ info.called
    /\ info.out.type = "fields"
    /\ info.resp.cards[1].absent = {<<"cardmarket", "prices", "lowPrice">>}
    /\ DOMAIN info.out.value = Keys \ {"low_price"}

\* C7: when the upstream search returns one or more records, get_card_image
\* and get_card_info use the first record only: the image URL and every
\* extracted field are those of the first record, whatever the later records
\* hold.
C7_FirstRecordOnly ==
    /\ (image.called /\ image.out.kind = "return" /\ image.out.type = "value") =>
          /\ Len(image.resp.cards) >= 1
          /\ image.out.value = Leaf(image.resp.cards[1], ImagePath)
    /\ (info.called /\ info.out.type = "fields") =>
          /\ Len(info.resp.cards) >= 1
          /\ \A i \in 1..Len(field_map) :
                IF Resolves(info.resp.cards[1], field_map[i].path)
                THEN /\ field_map[i].key \in DOMAIN info.out.value
                     /\ info.out.value[field_map[i].key]
                            = Leaf(info.resp.cards[1], field_map[i].path)
                ELSE field_map[i].key \notin DOMAIN info.out.value

C7_Witness ==
    /\ image.called
    /\ info.called
    /\ Len(upstream.cards) = 2
    /\ upstream.cards[2].absent = {<<"images">>}
    /\ image.out.type = "value"
    /\ info.out.type = "fields"
    /\ image.out.value.id = 1

---------------------------------------------------------------------------
(* run_agent and run_app *)

Over == pc \in {"returned", "raised"}

\* C3: run_agent never lets an exception through: when the construction of
\* the agent fails it returns the formatted error string paired with None,
\* when the run of the agent fails it returns the formatted error string
\* (paired with None as well), and when both succeed it returns the report.
C3_RunAgentCatches ==
    /\ report.kind # "raise"
    /\ pc = "raised" => (image.out.kind = "raise" /\ report = NoOut)
    /\ initOutcome \in Errors =>
          /\ report.kind = "return"
          /\ report.type = "tuple"
          /\ report.value.first = <<"Error initializing agent: ", initOutcome>>
          /\ report.value.second = None
          /\ pc = "returned"
    /\ runOutcome.kind = "raise" =>
          /\ report.kind = "return"
          /\ report.type = "tuple"
          /\ report.value.first = <<"Error running agent: ", runOutcome.what>>
          /\ report.value.second = None
          /\ pc = "returned"
    /\ runOutcome.kind = "answer" =>
          /\ report.kind = "return"
          /\ report.type = "answer"
          /\ pc = "returned"

C3_Witness ==
    /\ initOutcome \in Errors
    /\ report.type = "tuple"
    /\ pc = "returned"
    /\ submissions = 2

\* C8: when the agent is constructed and runs without failure, what
\* run_agent returns, which is the second component of what run_app returns,
\* is the final answer of the agent, unchanged.
C8_AnswerPassedThrough ==
    runOutcome.kind = "answer" =>
        /\ report.kind = "return"
        /\ report.value = runOutcome.what
        /\ result.kind = "return"
        /\ result.value.second.kind = "return"
        /\ result.value.second.value = runOutcome.what

C8_Witness ==
    /\ pc = "returned"
    /\ initOutcome = "ok"
    /\ runOutcome.kind = "answer"
    /\ runOutcome.what = "# Eevee EX"
    /\ toolCalls = 1

\* C4 as it was stated: the image path and the report path of run_app are
\* independent: a failure or a not-found outcome on one path does not keep
\* the other from running and delivering its result, so once a submission is
\* over both get_card_image and run_agent have run and run_app has returned
\* what each of them produced.
C4_BothPathsAlwaysDeliver ==
    Over =>
        /\ image.called
        /\ reached = submissions
        /\ report.kind = "return"
        /\ result.kind = "return"
        /\ result.value.first = image.out
        /\ result.value.second = report

\* C4, amended: a failure of the agent, at its construction or in its run,
\* does not undo the image path, and a not-found outcome of the image search
\* does not keep the report path from running: whenever get_card_image
\* returns, run_agent runs and run_app returns the image URL or the
\* not-found payload first and what run_agent returned second.  An exception
\* raised by get_card_image (the upstream search fails, the record has no
\* images) leaves run_app before run_agent is called: no report is produced.
C4_AgentFailureKeepsImage ==
    /\ (image.called /\ image.out.kind = "return") =>
          /\ pc \in {"agent_init", "agent_run", "agent_running", "returned"}
          /\ image.out.type \in {"value", "not_found"}
    /\ pc = "returned" =>
          /\ image.called
          /\ image.out.kind = "return"
          /\ report.kind = "return"
          /\ result.kind = "return"
          /\ result.value.first = image.out
          /\ result.value.second = report
          /\ Len(trace) >= 2
    /\ pc = "raised" =>
          /\ image.out.kind = "raise"
          /\ result = image.out
          /\ trace = <<"image">>
          /\ report = NoOut
          /\ initOutcome = "none"

C4_Witness ==
    /\ pc = "returned"
    /\ image.out.type = "not_found"
    /\ runOutcome.kind = "raise"
    /\ result.value.first.type = "not_found"
    /\ result.value.second.type = "tuple"

Steps == <<"image", "construct", "run">>

\* C9: over any sequence of submissions, each submission does its steps one
\* after the other and in this order: one image search, then one construction
\* of a new agent, then at most one run of that agent, and none when the
\* construction failed; no agent of an earlier submission is used by a later
\* one, so as many agents were constructed as submissions reached run_agent.
C9_FreshAgentPerSubmission ==
    /\ Len(trace) <= Len(Steps)
    /\ trace = SubSeq(Steps, 1, Len(trace))
    /\ Len(trace) = 3 => initOutcome = "ok"
    /\ Len(trace) >= 2 => (image.called /\ image.out.kind = "return")
    /\ Len(trace) < 2 => agent = NoAgent
    /\ agent # NoAgent => (agent.born = submissions /\ agent.id = constructed)
    /\ constructed = IF pc = "agent_init" THEN reached - 1 ELSE reached
    /\ reached <= submissions

C9_Witness ==
    /\ submissions = 2
    /\ constructed = 2
    /\ pc = "agent_running"
    /\ agent.id = 2

====
